---- MODULE Spec2Model ----
(***************************************************************************)
(* Session-based authentication service (app/main.py): a FastAPI app that  *)
(* registers users in a relational table, verifies bcrypt password hashes, *)
(* keeps session-id -> user-id entries with a TTL in Redis and gates       *)
(* GET /protected on the session cookie.                                   *)
(*                                                                         *)
(* Every handler is one action, except POST /register, whose existence     *)
(* check (line 97) and insert (line 100) are separate database operations  *)
(* and are modelled as two steps of a request slot so that concurrent      *)
(* registrations interleave.  The other handlers read immutable user rows  *)
(* and touch Redis once, so they are atomic at their Redis command.        *)
(*                                                                         *)
(* Redis may be unreachable (storeUp = FALSE): every command then raises   *)
(* redis.ConnectionError without effect.  No handler catches it, so the    *)
(* framework answers 500.                                                  *)
(*                                                                         *)
(* secrets.token_urlsafe(32) never returns a value it returned before (256 *)
(* bits of entropy: collisions are excluded).  Nothing in the program      *)
(* depends on a token but through equality, so the k-th token generated is *)
(* named k; a request may carry any token, generated yet or not.           *)
(***************************************************************************)
EXTENDS Integers, Sequences, FiniteSets, TLC

\* ---- bounds of the model ----
MaxTokens == 2      \* distinct session tokens that can be generated / guessed
MaxTicks  == 2      \* clock advances in one behaviour
MaxSalt   == 1      \* distinct bcrypt salts
NumSlots  == 2      \* concurrent POST /register requests in flight

\* ---- program constants ----
TTL == 86400        \* int(timedelta(days=1).total_seconds())

NoCookie    == 0 - 1   \* request.cookies.get("session_id") is None
EmptyCookie == 0       \* the cookie is the empty string
NoUser      == 0       \* Optional[User] is None (ids start at 1)

Tokens    == 1..MaxTokens
Cookies   == {NoCookie, EmptyCookie} \cup Tokens
Usernames == {"alice", "bob"}
FormUsernames == Usernames \cup {""}     \* "" : field empty or missing
\* passwords submitted to POST /register and to POST /login
RegisterPasswords == {"secret123", ""}
LoginPasswords    == {"secret123", "wrong", ""}
Salts     == 1..MaxSalt
Slots     == 1..NumSlots
\* clock advances: to one second before an expiry, and across it
TickSteps == {TTL - 1, 2}

VARIABLES
    users,       \* table "users": sequence of rows, in insertion order
    store,       \* Redis: function key -> [value, exp] over the live keys
    generated,   \* number of tokens secrets.token_urlsafe has returned so far
    now,         \* clock, seconds
    ticks,       \* number of clock advances so far
    storeUp,     \* Redis reachable
    reg,         \* per request slot: POST /register between check and insert
    resp         \* the latest completed request and its response

vars == <<users, store, generated, now, ticks, storeUp, reg, resp>>

\* ---- password hasher: pwd_context (bcrypt) ----
Digest(password, salt) == <<password, salt>>

pwd_hash(password, salt) == [salt |-> salt, digest |-> Digest(password, salt)]

pwd_verify(password, hash) == Digest(password, hash.salt) = hash.digest

\* ---- credential store ----
find_by_username(username) ==
    {i \in 1..Len(users) : users[i].username = username}

\* mutant: the session's user id is trusted without looking the row up
find_user_Unchecked(rows, id) == id

\* select(User).where(User.id == id) ... scalar_one_or_none() over a table
find_user(rows, id) ==
    IF \E i \in 1..Len(rows) : rows[i].id = id THEN id ELSE NoUser

find_by_id(id) == find_user(users, id)

\* mutant: the row is written under a fixed primary key and replaces the
\* row that has it
insert_user_FixedKey(username, hash) ==
    <<[id |-> 1, username |-> username, password_hash |-> hash]>>

\* db.add + db.commit of a new row; the primary key autoincrements
insert_user(username, hash) ==
    Append(users, [id |-> Len(users) + 1, username |-> username,
                   password_hash |-> hash])

\* ---- session store ----
SessionKey(token) == <<"session", token>>

\* GET on a key space
kv_get(keys, key) == IF key \in DOMAIN keys THEN keys[key].value ELSE NoUser

r_get(key) == kv_get(store, key)

\* the expiry of a key written without a TTL: later than the clock ever gets
NoExpiry == TTL * 1000

\* mutant: the session is written with r.set, without a TTL
r_setex_NoTTL(key, ttl, value) ==
    [k \in DOMAIN store \cup {key} |->
        IF k = key THEN [value |-> value, exp |-> NoExpiry] ELSE store[k]]

r_setex(key, ttl, value) ==
    [k \in DOMAIN store \cup {key} |->
        IF k = key THEN [value |-> value, exp |-> now + ttl] ELSE store[k]]

r_delete(key) == [k \in DOMAIN store \ {key} |-> store[k]]

\* store-enforced expiry: the keys still alive at time t
Expire(t) == [k \in {j \in DOMAIN store : store[j].exp > t} |-> store[k]]

\* ---- helpers of the handlers ----
\* mutant: the password is not verified
authenticate_user_NoVerify(username, password) ==
    LET found == find_by_username(username) IN
    IF found = {} THEN NoUser
    ELSE users[CHOOSE i \in found : TRUE].id

authenticate_user(username, password) ==
    LET found == find_by_username(username) IN
    IF found = {} THEN NoUser
    ELSE LET user == users[CHOOSE i \in found : TRUE] IN
         IF ~pwd_verify(password, user.password_hash) THEN NoUser
         ELSE user.id

\* get_current_user as a function of what it reads: the cookie, Redis
\* (reachable or not, its keys) and the users table
current_user(cookie, up, keys, rows) ==
    IF cookie = NoCookie \/ cookie = EmptyCookie
    THEN [raised |-> FALSE, user |-> NoUser]
    ELSE IF ~up
    THEN [raised |-> TRUE, user |-> NoUser]
    ELSE LET user_id == kv_get(keys, SessionKey(cookie)) IN
         IF user_id = NoUser
         THEN [raised |-> FALSE, user |-> NoUser]
         ELSE [raised |-> FALSE, user |-> find_user(rows, user_id)]

get_current_user(cookie) == current_user(cookie, storeUp, store, users)

\* The latest request (op, cookie, username), its response (status, location,
\* set_cookie, delete_cookie, user shown, detail) and, for a login that got to
\* line 115, the session_id it generated.
Response(op, cookie, username, status, location, set, del, user, detail, sid) ==
    [op |-> op, cookie |-> cookie, username |-> username,
     status |-> status, location |-> location, set_cookie |-> set,
     delete_cookie |-> del, user |-> user, detail |-> detail,
     session_id |-> sid]

\* an exception no handler catches: the framework answers 500
ServerError(op, cookie, username, sid) ==
    Response(op, cookie, username, 500, "", NoCookie, FALSE, NoUser,
             "Internal Server Error", sid)

\* mutant: the session id is not random (the generator returns the value it
\* returned last)
token_urlsafe_Fixed == IF generated = 0 THEN 1 ELSE generated

token_urlsafe == generated + 1

Idle == [pc |-> "idle", username |-> "", password |-> ""]

Init ==
    /\ users = <<>>
    /\ store = <<>>
    /\ generated = 0
    /\ now = 0
    /\ ticks = 0
    /\ storeUp = TRUE
    /\ reg = [s \in Slots |-> Idle]
    /\ resp = Response("none", NoCookie, "", 0, "", NoCookie, FALSE, NoUser, "",
                       NoCookie)

\* mutant: a read that finds the session renews its TTL (sliding expiration)
Home_SlidingExpiry(cookie) ==
    /\ LET cur == get_current_user(cookie) IN
       /\ resp' = IF cur.raised
                  THEN ServerError("home", cookie, "", NoCookie)
                  ELSE Response("home", cookie, "", 200, "", NoCookie, FALSE,
                                cur.user, "", NoCookie)
       /\ store' = IF cur.user # NoUser
                   THEN r_setex(SessionKey(cookie), TTL, cur.user)
                   ELSE store
    /\ UNCHANGED <<users, generated, now, ticks, storeUp, reg>>

\* ---- GET / ----
Home(cookie) ==
    /\ LET cur == get_current_user(cookie) IN
       resp' = IF cur.raised
               THEN ServerError("home", cookie, "", NoCookie)
               ELSE Response("home", cookie, "", 200, "", NoCookie, FALSE,
                             cur.user, "", NoCookie)
    /\ UNCHANGED <<users, store, generated, now, ticks, storeUp, reg>>

\* mutant: the protected page renews the TTL of the session it was shown for
Protected_SlidingExpiry(cookie) ==
    /\ LET cur == get_current_user(cookie) IN
       /\ resp' = IF cur.raised
                  THEN ServerError("protected", cookie, "", NoCookie)
                  ELSE IF cur.user = NoUser
                  THEN Response("protected", cookie, "", 303, "/login",
                                NoCookie, FALSE, NoUser, "", NoCookie)
                  ELSE Response("protected", cookie, "", 200, "", NoCookie,
                                FALSE, cur.user, "", NoCookie)
       /\ store' = IF cur.user # NoUser
                   THEN r_setex(SessionKey(cookie), TTL, cur.user)
                   ELSE store
    /\ UNCHANGED <<users, generated, now, ticks, storeUp, reg>>

\* ---- GET /protected ----
Protected(cookie) ==
    /\ LET cur == get_current_user(cookie) IN
       resp' = IF cur.raised
               THEN ServerError("protected", cookie, "", NoCookie)
               ELSE IF cur.user = NoUser
               THEN Response("protected", cookie, "", 303, "/login",
                             NoCookie, FALSE, NoUser, "", NoCookie)
               ELSE Response("protected", cookie, "", 200, "", NoCookie,
                             FALSE, cur.user, "", NoCookie)
    /\ UNCHANGED <<users, store, generated, now, ticks, storeUp, reg>>

\* mutant: the form fields are optional (declared with a default of "")
RegisterCheck_NoValidation(s, username, password) ==
    /\ reg[s].pc = "idle"
    /\ IF find_by_username(username) # {}
       THEN /\ resp' = Response("register", NoCookie, username, 400, "",
                                NoCookie, FALSE, NoUser,
                                "Username already exists", NoCookie)
            /\ reg' = reg
       ELSE /\ reg' = [reg EXCEPT ![s] = [pc |-> "checked",
                                          username |-> username,
                                          password |-> password]]
            /\ resp' = resp
    /\ UNCHANGED <<users, store, generated, now, ticks, storeUp>>

\* mutant: the existence check is left out
RegisterCheck_NoExistenceCheck(s, username, password) ==
    /\ reg[s].pc = "idle"
    /\ IF username = "" \/ password = ""
       THEN /\ resp' = Response("register", NoCookie, username, 422, "",
                                NoCookie, FALSE, NoUser, "Field required",
                                NoCookie)
            /\ reg' = reg
       ELSE /\ reg' = [reg EXCEPT ![s] = [pc |-> "checked",
                                          username |-> username,
                                          password |-> password]]
            /\ resp' = resp
    /\ UNCHANGED <<users, store, generated, now, ticks, storeUp>>

\* ---- POST /register, first step: Form(...) validation and existence check ----
RegisterCheck(s, username, password) ==
    /\ reg[s].pc = "idle"
    /\ IF username = "" \/ password = ""
       THEN /\ resp' = Response("register", NoCookie, username, 422, "",
                                NoCookie, FALSE, NoUser, "Field required",
                                NoCookie)
            /\ reg' = reg
       ELSE IF find_by_username(username) # {}
       THEN /\ resp' = Response("register", NoCookie, username, 400, "",
                                NoCookie, FALSE, NoUser,
                                "Username already exists", NoCookie)
            /\ reg' = reg
       ELSE /\ reg' = [reg EXCEPT ![s] = [pc |-> "checked",
                                          username |-> username,
                                          password |-> password]]
            /\ resp' = resp
    /\ UNCHANGED <<users, store, generated, now, ticks, storeUp>>

\* mutant: a successful registration also opens a session (auto-login)
RegisterInsert_AutoLogin(s, salt) ==
    /\ reg[s].pc = "checked"
    /\ IF find_by_username(reg[s].username) # {}
       THEN /\ users' = users
            /\ resp' = ServerError("register", NoCookie, reg[s].username,
                                   NoCookie)
            /\ UNCHANGED <<store, generated>>
       ELSE /\ users' = insert_user(reg[s].username,
                                    pwd_hash(reg[s].password, salt))
            /\ IF generated < MaxTokens /\ storeUp
               THEN /\ generated' = generated + 1
                    /\ store' = r_setex(SessionKey(token_urlsafe), TTL,
                                        Len(users) + 1)
                    /\ resp' = Response("register", NoCookie, reg[s].username,
                                        303, "/login", token_urlsafe, FALSE,
                                        NoUser, "", token_urlsafe)
               ELSE /\ UNCHANGED <<store, generated>>
                    /\ resp' = Response("register", NoCookie, reg[s].username,
                                        303, "/login", NoCookie, FALSE, NoUser,
                                        "", NoCookie)
    /\ reg' = [reg EXCEPT ![s] = Idle]
    /\ UNCHANGED <<now, ticks, storeUp>>

\* mutant: the username column has no unique index
RegisterInsert_NoUniqueIndex(s, salt) ==
    /\ reg[s].pc = "checked"
    /\ users' = insert_user(reg[s].username, pwd_hash(reg[s].password, salt))
    /\ resp' = Response("register", NoCookie, reg[s].username, 303, "/login",
                        NoCookie, FALSE, NoUser, "", NoCookie)
    /\ reg' = [reg EXCEPT ![s] = Idle]
    /\ UNCHANGED <<store, generated, now, ticks, storeUp>>

\* ---- POST /register, second step: create_user and the redirect ----
\* The unique index on username rejects a duplicate row at commit
\* (IntegrityError); register does not catch it.
RegisterInsert(s, salt) ==
    /\ reg[s].pc = "checked"
    /\ IF find_by_username(reg[s].username) # {}
       THEN /\ users' = users
            /\ resp' = ServerError("register", NoCookie, reg[s].username,
                                   NoCookie)
       ELSE /\ users' = insert_user(reg[s].username,
                                    pwd_hash(reg[s].password, salt))
            /\ resp' = Response("register", NoCookie, reg[s].username, 303,
                                "/login", NoCookie, FALSE, NoUser, "", NoCookie)
    /\ reg' = [reg EXCEPT ![s] = Idle]
    /\ UNCHANGED <<store, generated, now, ticks, storeUp>>

\* mutant: a login revokes the sessions the user already has
Login_SingleSession(username, password) ==
    /\ IF username = "" \/ password = ""
       THEN /\ resp' = Response("login", NoCookie, username, 422, "",
                                NoCookie, FALSE, NoUser, "Field required",
                                NoCookie)
            /\ UNCHANGED <<store, generated>>
       ELSE LET user == authenticate_user(username, password) IN
            IF user = NoUser
            THEN /\ resp' = Response("login", NoCookie, username, 401, "",
                                     NoCookie, FALSE, NoUser,
                                     "Invalid credentials", NoCookie)
                 /\ UNCHANGED <<store, generated>>
            ELSE LET session_id == token_urlsafe IN
                 /\ generated < MaxTokens
                 /\ generated' = generated + 1
                 /\ IF storeUp
                    THEN /\ store' =
                              [k \in {j \in DOMAIN store : store[j].value # user}
                                     \cup {SessionKey(session_id)} |->
                                  IF k = SessionKey(session_id)
                                  THEN [value |-> user, exp |-> now + TTL]
                                  ELSE store[k]]
                         /\ resp' = Response("login", NoCookie, username, 303,
                                             "/", session_id, FALSE, NoUser,
                                             "", session_id)
                    ELSE /\ store' = store
                         /\ resp' = ServerError("login", NoCookie, username,
                                                session_id)
    /\ UNCHANGED <<users, now, ticks, storeUp, reg>>

\* mutant: a failed session write is swallowed and the login goes on
Login_SwallowWriteError(username, password) ==
    /\ IF username = "" \/ password = ""
       THEN /\ resp' = Response("login", NoCookie, username, 422, "",
                                NoCookie, FALSE, NoUser, "Field required",
                                NoCookie)
            /\ UNCHANGED <<store, generated>>
       ELSE LET user == authenticate_user(username, password) IN
            IF user = NoUser
            THEN /\ resp' = Response("login", NoCookie, username, 401, "",
                                     NoCookie, FALSE, NoUser,
                                     "Invalid credentials", NoCookie)
                 /\ UNCHANGED <<store, generated>>
            ELSE LET session_id == token_urlsafe IN
                 /\ generated < MaxTokens
                 /\ generated' = generated + 1
                 /\ store' = IF storeUp
                             THEN r_setex(SessionKey(session_id), TTL, user)
                             ELSE store
                 /\ resp' = Response("login", NoCookie, username, 303, "/",
                                     session_id, FALSE, NoUser, "", session_id)
    /\ UNCHANGED <<users, now, ticks, storeUp, reg>>

\* ---- POST /login ----
Login(username, password) ==
    /\ IF username = "" \/ password = ""
       THEN /\ resp' = Response("login", NoCookie, username, 422, "",
                                NoCookie, FALSE, NoUser, "Field required",
                                NoCookie)
            /\ UNCHANGED <<store, generated>>
       ELSE LET user == authenticate_user(username, password) IN
            IF user = NoUser
            THEN /\ resp' = Response("login", NoCookie, username, 401, "",
                                     NoCookie, FALSE, NoUser,
                                     "Invalid credentials", NoCookie)
                 /\ UNCHANGED <<store, generated>>
            ELSE LET session_id == token_urlsafe IN
                 /\ generated < MaxTokens
                 /\ generated' = generated + 1
                 /\ IF storeUp
                    THEN /\ store' = r_setex(SessionKey(session_id), TTL, user)
                         /\ resp' = Response("login", NoCookie, username, 303,
                                             "/", session_id, FALSE, NoUser,
                                             "", session_id)
                    ELSE /\ store' = store
                         /\ resp' = ServerError("login", NoCookie, username,
                                                session_id)
    /\ UNCHANGED <<users, now, ticks, storeUp, reg>>

\* mutant: logout revokes every session of the cookie's user
Logout_AllOfUser(cookie) ==
    /\ IF cookie = NoCookie \/ cookie = EmptyCookie
       THEN /\ store' = store
            /\ resp' = Response("logout", cookie, "", 303, "/", NoCookie,
                                TRUE, NoUser, "", NoCookie)
       ELSE IF storeUp
       THEN /\ store' =
                 LET user == r_get(SessionKey(cookie)) IN
                 [k \in {j \in DOMAIN store : store[j].value # user} |->
                     store[k]]
            /\ resp' = Response("logout", cookie, "", 303, "/", NoCookie,
                                TRUE, NoUser, "", NoCookie)
       ELSE /\ store' = store
            /\ resp' = ServerError("logout", cookie, "", NoCookie)
    /\ UNCHANGED <<users, generated, now, ticks, storeUp, reg>>

\* mutant: logout clears the cookie and leaves the session entry
Logout_NoRevoke(cookie) ==
    /\ store' = store
    /\ resp' = Response("logout", cookie, "", 303, "/", NoCookie, TRUE, NoUser,
                        "", NoCookie)
    /\ UNCHANGED <<users, generated, now, ticks, storeUp, reg>>

\* ---- GET /logout ----
Logout(cookie) ==
    /\ IF cookie = NoCookie \/ cookie = EmptyCookie
       THEN /\ store' = store
            /\ resp' = Response("logout", cookie, "", 303, "/", NoCookie,
                                TRUE, NoUser, "", NoCookie)
       ELSE IF storeUp
       THEN /\ store' = r_delete(SessionKey(cookie))
            /\ resp' = Response("logout", cookie, "", 303, "/", NoCookie,
                                TRUE, NoUser, "", NoCookie)
       ELSE /\ store' = store
            /\ resp' = ServerError("logout", cookie, "", NoCookie)
    /\ UNCHANGED <<users, generated, now, ticks, storeUp, reg>>

\* ---- environment: the clock advances and Redis drops the expired keys ----
Tick(d) ==
    /\ ticks < MaxTicks
    /\ now' = now + d
    /\ ticks' = ticks + 1
    /\ store' = Expire(now + d)
    /\ UNCHANGED <<users, generated, storeUp, reg, resp>>

\* ---- environment: the connection to Redis is lost / restored ----
StoreFail ==
    /\ storeUp
    /\ storeUp' = FALSE
    /\ UNCHANGED <<users, store, generated, now, ticks, reg, resp>>

StoreRecover ==
    /\ ~storeUp
    /\ storeUp' = TRUE
    /\ UNCHANGED <<users, store, generated, now, ticks, reg, resp>>

Next ==
    \/ \E c \in Cookies : Home(c)
    \/ \E c \in Cookies : Protected(c)
    \/ \E s \in Slots, u \in FormUsernames, p \in RegisterPasswords :
          RegisterCheck(s, u, p)
    \/ \E s \in Slots, salt \in Salts : RegisterInsert(s, salt)
    \/ \E u \in FormUsernames, p \in LoginPasswords : Login(u, p)
    \/ \E c \in Cookies : Logout(c)
    \/ \E d \in TickSteps : Tick(d)
    \/ StoreFail
    \/ StoreRecover

Spec == Init /\ [][Next]_vars

\* ---- time goes on ----
\* Tick stops after MaxTicks advances.  For the properties of what happens
\* eventually the clock must not stop under a key that waits for its expiry:
\* while there is one, a whole TTL can pass, and sooner or later does.
Elapse ==
    /\ \E k \in DOMAIN store : store[k].exp < NoExpiry
    /\ now' = now + TTL
    /\ store' = Expire(now + TTL)
    /\ UNCHANGED <<users, generated, ticks, storeUp, reg, resp>>

NextLive ==
    \/ Next
    \/ Elapse

LiveSpec == Init /\ [][NextLive]_vars /\ WF_vars(Elapse)

\* ---- vocabulary of the properties ----
Active(token) == SessionKey(token) \in DOMAIN store

\* the id of the row with this username (NoUser if there is none)
IdOf(username) ==
    IF \E i \in 1..Len(users) : users[i].username = username
    THEN (CHOOSE i \in 1..Len(users) : users[i].username = username)
    ELSE NoUser

CorrectPassword(username, password) ==
    \E i \in 1..Len(users) :
        /\ users[i].username = username
        /\ users[i].password_hash.digest =
               <<password, users[i].password_hash.salt>>

\* this step completes a request of kind op carrying cookie c
Served(op, c) == resp' # resp /\ resp'.op = op /\ resp'.cookie = c

\* this step completes a get_current_user with cookie c (GET / or GET /protected)
Resolved(c) == Served("home", c) \/ Served("protected", c)

\* C1: GET /protected renders the protected content for a user only if the
\* request's cookie is a token whose key is in the session store at that
\* moment with the id of an existing row as its value; in every other case the
\* response is 303 to /login and shows no user.
C1_ProtectedGate ==
    [][\A c \in Cookies :
        Protected(c) =>
            LET valid == /\ c \in Tokens
                         /\ Active(c)
                         /\ \E i \in 1..Len(users) :
                                users[i].id = store[SessionKey(c)].value
            IN /\ (resp'.status = 200 \/ resp'.user # NoUser) => valid
               /\ ~valid => /\ resp'.status = 303
                            /\ resp'.location = "/login"
                            /\ resp'.user = NoUser]_vars

\* The half of C1 the code keeps: protected content only for a valid session.
ProtectedOnlyForValidSession ==
    [][\A c \in Cookies :
        (Protected(c) /\ (resp'.status = 200 \/ resp'.user # NoUser)) =>
            /\ c \in Tokens
            /\ Active(c)
            /\ resp'.user = store[SessionKey(c)].value
            /\ \E i \in 1..Len(users) : users[i].id = resp'.user]_vars

\* C2: a login of user u that returns session id s stores s for u; as long as
\* s has its entry (neither revoked nor expired) the entry's user is unchanged
\* and every get_current_user with s that returns, returns u; a logout carrying
\* s that completes removes the entry, an entry once gone never comes back, and
\* a get_current_user with s then returns no user, whatever step is taken.
C2_SessionResolvesToItsUser ==
    [][\A s \in Tokens :
        LET key == SessionKey(s) IN
        /\ (resp'.op = "login" /\ resp'.set_cookie = s /\ generated' # generated)
              => /\ key \in DOMAIN store'
                 /\ IdOf(resp'.username) # NoUser
                 /\ store'[key].value = IdOf(resp'.username)
        /\ (key \in DOMAIN store /\ key \in DOMAIN store')
              => store'[key].value = store[key].value
        /\ SubSeq(users', 1, Len(users)) = users
        /\ (Resolved(s) /\ key \in DOMAIN store /\ resp'.status # 500)
              => resp'.user = store[key].value
        /\ (Resolved(s) /\ key \notin DOMAIN store)
              => resp'.user = NoUser
        /\ (Served("logout", s) /\ resp'.status = 303)
              => key \notin DOMAIN store'
        /\ (s <= generated /\ key \notin DOMAIN store)
              => key \notin DOMAIN store']_vars

\* a session of the second user is shown to a request carrying it while the
\* first user has a session too
C2_Witness ==
    /\ resp.op = "home"
    /\ resp.user = 2
    /\ Active(resp.cookie)
    /\ \E t \in Tokens : Active(t) /\ store[SessionKey(t)].value = 1

\* a revoked session is asked for again and shows no user
C2_WitnessRevoked ==
    /\ resp.op = "protected"
    /\ resp.cookie \in 1..generated
    /\ ~Active(resp.cookie)
    /\ resp.status = 303
    /\ ticks = 0

\* C3: a login with an unknown username and a login with a known username and
\* a wrong password end the same way: 401, "Invalid credentials", no cookie,
\* session store untouched.
C3_InvalidCredentialsUniform ==
    [][\A u \in Usernames, p \in LoginPasswords \ {""} :
        (Login(u, p) /\ ~CorrectPassword(u, p)) =>
            /\ resp' = Response("login", NoCookie, u, 401, "", NoCookie, FALSE,
                                NoUser, "Invalid credentials", NoCookie)
            /\ store' = store
            /\ generated' = generated]_vars

\* a known user's wrong password was refused while an unknown username exists
\* and a session is active
C3_Witness ==
    /\ resp.op = "login"
    /\ resp.status = 401
    /\ IdOf(resp.username) # NoUser
    /\ Len(users) = 1
    /\ store # <<>>

\* C4: no two rows of the users table have the same username.
C4_UniqueUsernames ==
    \A i, j \in 1..Len(users) :
        users[i].username = users[j].username => i = j

\* an insert for a username that passed the check but was taken meanwhile was
\* attempted
C4_Witness ==
    /\ resp.op = "register"
    /\ resp.status = 500
    /\ IdOf(resp.username) # NoUser

\* C5: a POST /register for a username whose row exists when the request
\* starts fails with 400 "Username already exists", adds no row and leaves
\* every row as it is.
C5_DuplicateRegisterFails ==
    [][\A s \in Slots, u \in Usernames, p \in RegisterPasswords \ {""} :
        (RegisterCheck(s, u, p) /\ IdOf(u) # NoUser) =>
            /\ resp'.op = "register"
            /\ resp'.username = u
            /\ resp'.status = 400
            /\ resp'.detail = "Username already exists"
            /\ users' = users
            /\ reg'[s].pc = "idle"]_vars

C5_Witness ==
    /\ resp.op = "register"
    /\ resp.status = 400
    /\ IdOf(resp.username) # NoUser

\* C6: when two registrations of a username both pass the existence check,
\* one creates the row and the other's insert is answered 400
\* (DuplicateUsername), not any other failure.
C6_RaceReportedAsDuplicate ==
    [][\A s \in Slots, salt \in Salts :
        (RegisterInsert(s, salt) /\ IdOf(reg[s].username) # NoUser) =>
            /\ users' = users
            /\ resp'.status = 400]_vars

\* C7: with the session store unreachable, a request carrying a session cookie
\* is treated as unauthenticated: GET / renders with no user, GET /protected
\* redirects to /login, and no error surfaces.
C7_ReadFailureIsUnauthenticated ==
    [][\A c \in Tokens :
        /\ (Home(c) /\ ~storeUp) =>
              resp'.status = 200 /\ resp'.user = NoUser
        /\ (Protected(c) /\ ~storeUp) =>
              /\ resp'.status = 303
              /\ resp'.location = "/login"
              /\ resp'.user = NoUser]_vars

\* The half of C7 the code keeps: a failed read never shows a user.
ReadFailureShowsNoUser ==
    [][\A c \in Cookies :
        ((Home(c) \/ Protected(c)) /\ ~storeUp) => resp'.user = NoUser]_vars

\* C8: a login with correct credentials whose session write fails is a hard
\* failure: no cookie, no redirect, and no entry for the generated token.
C8_WriteFailureIsHardFailure ==
    [][\A u \in Usernames, p \in LoginPasswords \ {""} :
        (Login(u, p) /\ CorrectPassword(u, p) /\ ~storeUp) =>
            /\ resp'.op = "login"
            /\ resp'.status = 500
            /\ resp'.set_cookie = NoCookie
            /\ resp'.location = ""
            /\ resp'.session_id = generated + 1
            /\ SessionKey(generated + 1) \notin DOMAIN store'
            /\ store' = store]_vars

C8_Witness ==
    /\ resp.op = "login"
    /\ resp.status = 500
    /\ resp.session_id \in Tokens
    /\ ~Active(resp.session_id)

\* C9: GET /logout always answers 303 to / and clears the cookie, whatever the
\* cookie is, and a second logout with the same cookie would leave the session
\* store as the first left it.
C9_LogoutAlwaysSucceeds ==
    [][\A c \in Cookies :
        Logout(c) =>
            /\ resp'.status = 303
            /\ resp'.location = "/"
            /\ resp'.delete_cookie
            /\ c \in Tokens => SessionKey(c) \notin DOMAIN store']_vars

\* The part of C9 the code keeps: with the store reachable, or without a
\* cookie, logout answers 303 to /, clears the cookie, removes the entry of
\* the cookie's token and nothing else.
LogoutWhenStoreReachable ==
    [][\A c \in Cookies :
        (Logout(c) /\ (storeUp \/ c \notin Tokens)) =>
            /\ resp'.status = 303
            /\ resp'.location = "/"
            /\ resp'.delete_cookie
            /\ DOMAIN store' = DOMAIN store \ {SessionKey(c)}
            /\ \A k \in DOMAIN store' : store'[k] = store[k]]_vars

\* C10: a session written by a login at time t expires at t + 86400: its entry
\* is present (and resolves, when the store is reachable) at every time before
\* that unless a logout carrying it removed it, is absent at every time after
\* that, and no step, a read included, moves its expiry.
C10_FixedExpiry ==
    [][\A s \in Tokens :
        LET key == SessionKey(s) IN
        /\ (key \notin DOMAIN store /\ key \in DOMAIN store')
              => store'[key].exp = now + TTL
        /\ (key \in DOMAIN store /\ key \in DOMAIN store')
              => store'[key].exp = store[key].exp
        /\ (key \in DOMAIN store /\ key \notin DOMAIN store')
              => \/ Served("logout", s)
                 \/ now' >= store[key].exp
        /\ key \in DOMAIN store' => now' <= store'[key].exp
        /\ (Resolved(s) /\ storeUp /\ key \in DOMAIN store)
              => resp'.user # NoUser]_vars

\* a session one second before its expiry was read and resolved
C10_Witness ==
    /\ resp.op = "home"
    /\ resp.user # NoUser
    /\ Active(resp.cookie)
    /\ store[SessionKey(resp.cookie)].exp = now + 1

\* a session is gone one second after its expiry
C10_WitnessExpired ==
    /\ now = TTL + 1
    /\ generated = 1
    /\ ~Active(1)
    /\ resp.op = "protected"
    /\ resp.cookie = 1
    /\ resp.status = 303
\* this step is a login that succeeded (303 with a new session cookie)
LoggedIn == resp'.op = "login" /\ resp'.status = 303 /\ generated' # generated

\* C11: a successful login of a user who already has active sessions writes
\* a new entry under a token that had none, leaves each of the user's active
\* sessions in place with the same value and the same expiry, and afterwards
\* the new token and the old ones all resolve to the user.
C11_ReloginKeepsSessions ==
    [][LoggedIn =>
        LET user == IdOf(resp'.username)
            new  == SessionKey(resp'.set_cookie)
        IN /\ user # NoUser
           /\ new \notin DOMAIN store
           /\ new \in DOMAIN store'
           /\ \A c \in Tokens :
                 c = resp'.set_cookie =>
                     (get_current_user(c))' = [raised |-> FALSE, user |-> user]
           /\ \A t \in Tokens :
                 (Active(t) /\ store[SessionKey(t)].value = user) =>
                     /\ SessionKey(t) \in DOMAIN store'
                     /\ store'[SessionKey(t)] = store[SessionKey(t)]
                     /\ SessionKey(t) # new
                     /\ (get_current_user(t))' =
                            [raised |-> FALSE, user |-> user]]_vars

\* the same user holds two active sessions after logging in twice
C11_Witness ==
    /\ resp.op = "login"
    /\ resp.status = 303
    /\ resp.set_cookie = 2
    /\ Active(1)
    /\ Active(2)
    /\ store[SessionKey(1)].value = store[SessionKey(2)].value

\* this step is a registration that created a row
RowCreated == Len(users') = Len(users) + 1

\* C12: a register that creates a user answers 303 to /login, sets no cookie
\* and leaves the session store as it was, so no cookie resolves to the new
\* user; an entry only ever appears by a successful login of its user.
C12_RegisterDoesNotAuthenticate ==
    [][/\ RowCreated =>
            /\ resp'.op = "register"
            /\ resp'.username = users'[Len(users')].username
            /\ resp'.status = 303
            /\ resp'.location = "/login"
            /\ resp'.set_cookie = NoCookie
            /\ store' = store
            /\ generated' = generated
            /\ \A c \in Cookies :
                  (get_current_user(c))'.user # users'[Len(users')].id
       /\ \A k \in DOMAIN store' :
            k \notin DOMAIN store =>
                /\ LoggedIn
                /\ store'[k].value = IdOf(resp'.username)]_vars

\* a second user has just registered while the first one's session is active:
\* no entry is the new user's
C12_Witness ==
    /\ resp.op = "register"
    /\ resp.status = 303
    /\ Len(users) = 2
    /\ users[2].username = resp.username
    /\ store # <<>>
    /\ \A k \in DOMAIN store : store[k].value = 1

\* C13: a POST /register whose username or password is missing or empty is
\* refused as a validation error (422) before anything else happens: no row is
\* created, no insert is left pending, and no row ever has an empty username
\* or the hash of an empty password.
C13_RegisterValidation ==
    [][/\ \A s \in Slots, u \in FormUsernames, p \in RegisterPasswords :
            (RegisterCheck(s, u, p) /\ (u = "" \/ p = "")) =>
                /\ resp'.op = "register"
                /\ resp'.username = u
                /\ resp'.status = 422
                /\ users' = users
                /\ reg' = reg
       /\ \A s \in Slots :
            reg'[s].pc = "checked" =>
                reg'[s].username # "" /\ reg'[s].password # ""
       /\ \A i \in 1..Len(users') :
            /\ users'[i].username # ""
            /\ \A salt \in Salts :
                  users'[i].password_hash # pwd_hash("", salt)]_vars

\* a registration with a username and an empty password was refused and the
\* username is still free
C13_Witness ==
    /\ resp.op = "register"
    /\ resp.status = 422
    /\ resp.username \in Usernames
    /\ IdOf(resp.username) = NoUser
    /\ \A s \in Slots : reg[s].pc = "idle"

\* the users table with the row of this id removed
RowGone(id) ==
    LET Kept(row) == row.id # id IN SelectSeq(users, Kept)

\* C14: every entry of the session store holds the id of an existing row;
\* and were the row of an active session gone, get_current_user with that
\* session would return no user without raising, and a read (GET / or
\* GET /protected) removes no entry.
C14_SessionsReferToUsers ==
    [][/\ \A k \in DOMAIN store :
            \E i \in 1..Len(users) : users[i].id = store[k].value
       /\ \A k \in DOMAIN store' :
            \E i \in 1..Len(users') : users'[i].id = store'[k].value
       /\ \A t \in Tokens :
            Active(t) =>
                /\ find_user(RowGone(store[SessionKey(t)].value),
                             store[SessionKey(t)].value) = NoUser
                /\ current_user(t, TRUE, store,
                                RowGone(store[SessionKey(t)].value))
                       = [raised |-> FALSE, user |-> NoUser]
       /\ \A c \in Cookies : Resolved(c) => store' = store]_vars

\* the second user's session was shown the protected page, so dropping that
\* user's row would leave the session an orphan
C14_Witness ==
    /\ resp.op = "protected"
    /\ resp.status = 200
    /\ resp.user = 2
    /\ Active(resp.cookie)
    /\ Len(RowGone(2)) = 1

\* C15: a session key goes from absent to present only by a successful login
\* that generated its token, and from present to absent only by a logout
\* carrying its token or when the clock reaches its expiry; while present its
\* user id does not change; register, a failed login, GET / and GET /protected
\* leave the whole session store as it is.
C15_SessionStateMachine ==
    [][/\ \A s \in Tokens :
            LET key == SessionKey(s) IN
            /\ (key \notin DOMAIN store /\ key \in DOMAIN store')
                  => /\ LoggedIn
                     /\ resp'.set_cookie = s
                     /\ s = generated'
                     /\ s > generated
            /\ (key \in DOMAIN store /\ key \notin DOMAIN store')
                  => \/ Served("logout", s) /\ resp'.status = 303
                     \/ now' > now /\ now' >= store[key].exp
            /\ (key \in DOMAIN store /\ key \in DOMAIN store')
                  => store'[key].value = store[key].value
       /\ (resp' # resp /\ resp'.op \in {"register", "home", "protected"})
             => store' = store
       /\ (resp' # resp /\ resp'.op = "login" /\ resp'.status # 303)
             => store' = store]_vars

\* the first session has ended and the second one is active
C15_Witness ==
    /\ generated = 2
    /\ ~Active(1)
    /\ Active(2)
    /\ resp.op = "login"
    /\ resp.status = 401

\* C16: GET / and GET /protected change neither store, whatever the cookie:
\* the session store keeps its keys, values and expiries (and the clock does
\* not move, so every remaining TTL is the same), and the users table keeps
\* its rows.
C16_ReadsChangeNothing ==
    [][\A c \in Cookies :
        (Home(c) \/ Protected(c)) =>
            /\ store' = store
            /\ now' = now
            /\ users' = users
            /\ reg' = reg]_vars

\* the protected page was shown for a session one second before its expiry,
\* which is still one second away
C16_Witness ==
    /\ resp.op = "protected"
    /\ resp.status = 200
    /\ Active(resp.cookie)
    /\ store[SessionKey(resp.cookie)].exp = now + 1

\* C17: no step changes or removes a row of the users table: every row keeps
\* its place, id, username and password_hash, and rows are only added.
C17_UsersImmutable ==
    [][/\ Len(users') >= Len(users)
       /\ \A i \in 1..Len(users) :
            /\ users'[i].id = users[i].id
            /\ users'[i].username = users[i].username
            /\ users'[i].password_hash = users[i].password_hash
       /\ \A i \in 1..Len(users') : users'[i].id = i]_vars

\* both users are registered, the first before the second, and a session was
\* opened and logged out afterwards
C17_Witness ==
    /\ Len(users) = 2
    /\ resp.op = "logout"
    /\ resp.status = 303
    /\ resp.cookie \in 1..generated
    /\ ~Active(resp.cookie)

\* C18: a logout carrying token s removes no entry but that of s: every other
\* entry, of the same user or of another, is still there with its value and
\* expiry and still resolves to its user, and the users table is unchanged.
C18_LogoutRemovesOnlyItsSession ==
    [][\A c \in Cookies :
        Logout(c) =>
            /\ DOMAIN store' \subseteq DOMAIN store
            /\ \A t \in Tokens :
                  (t # c /\ Active(t)) =>
                      /\ SessionKey(t) \in DOMAIN store'
                      /\ store'[SessionKey(t)] = store[SessionKey(t)]
                      /\ storeUp =>
                            (get_current_user(t))' =
                                [raised |-> FALSE,
                                 user |-> store[SessionKey(t)].value]
            /\ users' = users
            /\ now' = now]_vars

\* the only user logged out of the first of two sessions and the second is
\* still active
C18_Witness ==
    /\ resp.op = "logout"
    /\ resp.status = 303
    /\ resp.cookie = 1
    /\ Len(users) = 1
    /\ generated = 2
    /\ ticks = 0
    /\ ~Active(1)
    /\ Active(2)

\* C19: every session that is active is eventually gone, given that time
\* goes on and Redis drops expired keys, whatever reads and other requests
\* happen in between.
C19_SessionsEnd ==
    \A s \in Tokens : Active(s) ~> ~Active(s)

\* a session that nobody logged out has expired and a read with it shows no
\* user
C19_Witness ==
    /\ generated = 1
    /\ ticks = 0
    /\ now = TTL
    /\ ~Active(1)
    /\ resp.op = "home"
    /\ resp.cookie = 1
    /\ resp.status = 200
    /\ resp.user = NoUser
====
